---- MODULE Spec2Model ----
(***************************************************************************)
(* A model of chassis2023: the call-once lock set, module intake            *)
(* (gather_modules and the mi_ routines), the run-module census, the        *)
(* interlink of module symbols, the staged run() sequence, the logger and   *)
(* the snowflake allocator.                                                 *)
(*                                                                          *)
(* Python values are modelled as follows.  A list is a sequence, a dict     *)
(* with a fixed key set is a record, None is the string "None".  A raised   *)
(* exception that nothing catches ends the call: pc becomes "raised" and    *)
(* exc holds the exception's class and arguments.  What lies outside the    *)
(* process (programdata.json, the modules Python's import system can find,  *)
(* what each module's kMODULE_INFO says) is fixed when the process starts   *)
(* and is held in the variables disk_programdata, minfo and tk_installed.   *)
(***************************************************************************)
EXTENDS Integers, Sequences, FiniteSets, TLC

VARIABLES
    pc,                     \* the next operation of the call in progress
    entry,                  \* the function the outside caller invoked
    ncalls,                 \* how often the caller re-invoked gather_modules
    exc,                    \* the exception that ended the call, if any
    g_PROGRAMDATA,          \* g[PROGRAMDATA]
    g_MI_SRC,               \* g[MI_SRC]
    g_RUNMODULE,            \* g[RUNMODULE]
    g_STAGE,                \* g[STAGE]
    locks,                  \* locks
    modules,                \* modules
    pulsers,                \* pulsers
    mi_toprocess,           \* mi_toprocess
    mi_processed,           \* mi_processed
    mi_recently_processed,  \* mi_recently_processed
    mi_processing_sources,  \* mi_processing_sources
    symbols_from_module,    \* symbols_from_module
    attrs,                  \* the names inject_symbols has set on each module
    logs,                   \* logs
    ringlogs,               \* ringlogs
    db,                     \* snowflakes.db
    byname,                 \* snowflakes.byname: name -> index of its entry in db
    disk_programdata,       \* the content of programdata.json
    minfo,                  \* each importable module's kMODULE_INFO and hooks
    tk_installed,           \* whether the tk23 modules are importable
    enqlog,                 \* history: addresses in the order mi_register_one queued them
    reqlog,                 \* history: every mi_register_one call: the address and who asked
    disp,                   \* history: the last address dispatched, and what was pending then
    nexec,                  \* history: how often each intake entry point ran its body
    trace,                  \* history: stage records and hook calls, in order
    calls,                  \* history: the lock-guard calls made from outside, with their outcomes
    logcalls,               \* history: the log()/ringlog() calls made from outside, with their outcomes
    exported,               \* the mapping the last export_to_jsondict() returned
    exported_defs,          \* history: how many definitions db held when it was returned
    lastimport,             \* history: the import_from_jsondict() call that was the last step, if any
    streak                  \* history: per name, the values next() returned since its define

vars == <<pc, entry, ncalls, exc, g_PROGRAMDATA, g_MI_SRC, g_RUNMODULE, g_STAGE,
          locks, modules, pulsers, mi_toprocess, mi_processed,
          mi_recently_processed, mi_processing_sources, symbols_from_module,
          attrs, logs, ringlogs, db, byname, disk_programdata, minfo,
          tk_installed, enqlog, reqlog, disp, nexec, trace, calls, logcalls,
          exported, exported_defs, lastimport, streak>>

-----------------------------------------------------------------------------
(* Bounds of the model. *)

\* the number of addresses declared in programdata.json and by the modules, in all
MaxAddrs == 3

\* how often the caller invokes gather_modules again after a call has ended
MaxCalls == 2

\* how many lock-guard calls the outside caller makes
MaxGuardCalls == 4

\* how many log()/ringlog() calls the outside caller makes
MaxLogCalls == 5

\* how many snowflake definitions are made
MaxDefs == 2

\* next() is not called on a sequence whose pointer has reached this value
MaxNext == 3

-----------------------------------------------------------------------------
(* Sequences. *)

InSeq(x, s) == \E i \in 1..Len(s) : s[i] = x

SetOf(s) == {s[i] : i \in 1..Len(s)}

NoDup(s) == \A i, j \in 1..Len(s) : i # j => s[i] # s[j]

Last(s) == s[Len(s)]

Front(s) == SubSeq(s, 1, Len(s) - 1)

\* the position of x's first occurrence in s, 0 when absent
IndexOf(x, s) == IF InSeq(x, s) THEN CHOOSE i \in 1..Len(s) : s[i] = x /\ \A j \in 1..(i - 1) : s[j] # x ELSE 0

SeqsOfLen(S, n) == [1..n -> S]

-----------------------------------------------------------------------------
(* Core symbols. *)

NAME == "NAME"

FILE == "FILE"

DIR == "DIR"

CLITOOL == "CLITOOL"

WEBSERVER == "WEBSERVER"

FILETALKSERVER == "FILETALKSERVER"

TKINTERGUI == "TKINTERGUI"

INTERACTIVEMENU == "INTERACTIVEMENU"

None == "None"

\* a MODULES dict; a key the dict lacks reads as the empty list (spec.get(K, []))
ModSpec(dirs, files, names) == [DIRS |-> dirs, FILES |-> files, NAMES |-> names]

EmptySpec == ModSpec(<<>>, <<>>, <<>>)

TkNames == <<"tk23top", "tk23symbols", "tk23util", "tk23builder", "tk23base">>

execution_types ==
    [CLITOOL         |-> [NAME |-> CLITOOL, MODULES |-> EmptySpec, NRUNMODULES |-> 1],
     WEBSERVER       |-> [NAME |-> WEBSERVER, MODULES |-> EmptySpec, NRUNMODULES |-> 0],
     FILETALKSERVER  |-> [NAME |-> FILETALKSERVER, MODULES |-> EmptySpec, NRUNMODULES |-> 0],
     TKINTERGUI      |-> [NAME |-> TKINTERGUI, MODULES |-> ModSpec(<<>>, <<>>, TkNames), NRUNMODULES |-> 0],
     INTERACTIVEMENU |-> [NAME |-> INTERACTIVEMENU, MODULES |-> EmptySpec, NRUNMODULES |-> 0]]

execution_type_D == execution_types[g_PROGRAMDATA.EXECUTIONTYPE]

\* "execution type: " + name
ExecTypeSource(name) ==
    CASE name = CLITOOL -> "execution type: CLITOOL"
      [] name = WEBSERVER -> "execution type: WEBSERVER"
      [] name = FILETALKSERVER -> "execution type: FILETALKSERVER"
      [] name = TKINTERGUI -> "execution type: TKINTERGUI"
      [] name = INTERACTIVEMENU -> "execution type: INTERACTIVEMENU"

-----------------------------------------------------------------------------
(* Exceptions. *)

Exc(type, a1, a2) == [type |-> type, a1 |-> a1, a2 |-> a2]

NoExc == Exc(None, None, None)

WasLocked(key) == Exc("WasLocked", key, None)

WasNotLocked(key) == Exc("WasNotLocked", key, None)

ChassisModuleNotFoundError(addr, src) == Exc("ChassisModuleNotFoundError", addr, src)

NameError(name) == Exc("NameError", name, None)

FileNotFoundError(path) == Exc("FileNotFoundError", path, None)

AttributeError(obj, attr) == Exc("AttributeError", obj, attr)

KeyError(key) == Exc("KeyError", key, None)

TypeError(a) == Exc("TypeError", a, None)

ValueError(v) == Exc("ValueError", v, None)

-----------------------------------------------------------------------------
(* Security: the lock set. *)

GatherKey == "CALLED:chassis2023.gather_modules"

SeedProgramdataKey == "CALLED:chassis2023.mi_seed_from_programdata"

SeedExecutiontypeKey == "CALLED:chassis2023.mi_seed_from_executiontype"

CascadeKey == "CALLED:chassis2023.mi_cascade_processing"

FindRunmoduleKey == "CALLED:chassis2023.find_runmodule()"

FindPulsersKey == "CALLED:chassis2023.find_pulsers()"

\* the outcome of a lock-guard call on lock set L: the exception raised (NoExc
\* when it returns) and the lock set afterwards
GuardResult(e, L) == [exc |-> e, locks |-> L]

\* a lock that never refuses
lock_unchecked(key, L) == GuardResult(NoExc, L \cup {key})

lock(key, L) ==
    IF key \in L THEN GuardResult(WasLocked(key), L)
    ELSE GuardResult(NoExc, L \cup {key})

\* an unlock that discards the key and never complains
unlock_silent(key, L) == GuardResult(NoExc, L \ {key})

unlock(key, L) ==
    IF key \in L THEN GuardResult(NoExc, L \ {key})
    ELSE GuardResult(WasNotLocked(key), L)

req(key, L) ==
    IF key \notin L THEN GuardResult(WasNotLocked(key), L)
    ELSE GuardResult(NoExc, L)

forbid(key, L) ==
    IF key \in L THEN GuardResult(WasLocked(key), L)
    ELSE GuardResult(NoExc, L)

-----------------------------------------------------------------------------
(* What lies outside the process: the import system and the file system.   *)

\* names a MODULES dict of this model may list under NAMES
DeclNames == {"a", "b", "c", "b_alias", "x"}

DeclFiles == {"f.py"}

DeclDirs == {"d"}

AllNames == DeclNames \cup SetOf(TkNames)

AllPaths == DeclFiles \cup {"d/g.py", "d/h.py", "d/notes.txt"}

Addrs == ({NAME} \X AllNames) \cup ({FILE} \X AllPaths) \cup ({DIR} \X DeclDirs)

NotFound == "ModuleNotFoundError"

\* importlib.import_module(name): the module object, or NotFound.  "b" and
\* "b_alias" name one module object (as os.path and posixpath do), "x" names none.
ImportModule(name) ==
    CASE name = "a" -> "mod_a"
      [] name = "b" -> "mod_b"
      [] name = "b_alias" -> "mod_b"
      [] name = "c" -> "mod_c"
      [] name \in SetOf(TkNames) -> IF tk_installed THEN name ELSE NotFound
      [] OTHER -> NotFound

\* executing the file at a path: the module object, NotFound when an import
\* inside it fails, or "FileNotFoundError"
ExecFile(path) ==
    CASE path = "f.py" -> "mod_f"
      [] path = "d/g.py" -> "mod_g"
      [] path = "d/h.py" -> NotFound
      [] OTHER -> "FileNotFoundError"

\* os.listdir(dir_path)
ListDir(dir_path) == IF dir_path = "d" THEN <<"g.py", "notes.txt", "h.py">> ELSE <<>>

\* os.path.join(dir_path, filename)
PathJoin(dir_path, filename) ==
    CASE filename = "g.py" -> "d/g.py"
      [] filename = "h.py" -> "d/h.py"
      [] OTHER -> "d/notes.txt"

\* filename.endswith('.py') or filename.endswith('.pyc')
IsPyFile(filename) == filename \in {"g.py", "h.py", "f.py"}

\* chassis2023.py imports sys, time, json, importlib, inspect and snowflakes:
\* the name os, which the path and directory importers use, is not bound
OsImported == FALSE

UserMods == {"mod_a", "mod_b", "mod_c"}

Mods == UserMods \cup SetOf(TkNames) \cup {"mod_f", "mod_g"}

\* module.__name__
ModuleName(m) ==
    CASE m = "mod_a" -> "a"
      [] m = "mod_b" -> "b"
      [] m = "mod_c" -> "c"
      [] m = "mod_f" -> "f"
      [] m = "mod_g" -> "g"
      [] OTHER -> m

-----------------------------------------------------------------------------
(* Module intake. *)

Absent == "<absent>"

\* mi_processing_sources.get(tup)
SourcesGet(sources, tup) == IF sources[tup] = Absent THEN None ELSE sources[tup]

\* the intake queue state the mi_register routines work on
Intake(toprocess, sources, src, elog, rlog) ==
    [toprocess |-> toprocess, sources |-> sources, src |-> src, enqlog |-> elog, reqlog |-> rlog]

mi_register_one(st, processed, kind, s) ==
    LET tup == <<kind, s>>
        asked == [st EXCEPT !.reqlog = Append(@, [addr |-> tup, by |-> st.src])]
    IN
    IF InSeq(tup, st.toprocess) THEN asked
    ELSE IF InSeq(tup, processed) THEN asked
    ELSE [asked EXCEPT !.toprocess = Append(@, tup),
                       !.sources[tup] = st.src,
                       !.enqlog = Append(@, tup)]

RECURSIVE mi_register_each(_, _, _, _)
\* for p in L: mi_register_one(kind, p)
mi_register_each(st, processed, kind, L) ==
    IF L = <<>> THEN st
    ELSE mi_register_each(mi_register_one(st, processed, kind, Head(L)), processed, kind, Tail(L))

mi_register_to_process(st, processed, spec, source_desc) ==
    LET s0 == [st EXCEPT !.src = source_desc]
        s1 == mi_register_each(s0, processed, DIR, spec.DIRS)
        s2 == mi_register_each(s1, processed, FILE, spec.FILES)
    IN mi_register_each(s2, processed, NAME, spec.NAMES)

\* the module list state the importers work on, and the exception that ended
\* the import, if any
Reg(mods, recent, e) == [modules |-> mods, recent |-> recent, exc |-> e]

\* registering without the safeguard against double imports
mi_register_module_unguarded(r, module) ==
    Reg(Append(r.modules, module), Append(r.recent, module), r.exc)

mi_register_module(r, module) ==
    IF ~InSeq(module, r.modules)
    THEN Reg(Append(r.modules, module), Append(r.recent, module), r.exc)
    ELSE r

mi_import_module_from_name(r, module_name, sources) ==
    LET module == ImportModule(module_name) IN
    IF module # NotFound THEN mi_register_module(r, module)
    ELSE IF sources[<<NAME, module_name>>] = Absent
         THEN [r EXCEPT !.exc = KeyError(module_name)]
         ELSE [r EXCEPT !.exc = ChassisModuleNotFoundError(module_name, sources[<<NAME, module_name>>])]

mi_import_module_from_path(r, module_path, sources) ==
    IF ~OsImported THEN [r EXCEPT !.exc = NameError("os")]
    ELSE LET module == ExecFile(module_path) IN
         IF module = "FileNotFoundError" THEN [r EXCEPT !.exc = FileNotFoundError(module_path)]
         ELSE IF module # NotFound THEN mi_register_module(r, module)
         ELSE LET src1 == SourcesGet(sources, <<FILE, module_path>>)
                  src == IF src1 = None /\ <<DIR, module_path>> \in Addrs
                         THEN SourcesGet(sources, <<DIR, module_path>>) ELSE src1
              IN [r EXCEPT !.exc = ChassisModuleNotFoundError(module_path, src)]

RECURSIVE mi_import_each_file(_, _, _, _)
\* the loop of mi_import_modules_from_dir over the directory's file names
mi_import_each_file(r, dir_path, filenames, sources) ==
    IF filenames = <<>> \/ r.exc # NoExc THEN r
    ELSE LET filename == Head(filenames)
             r1 == IF IsPyFile(filename)
                   THEN mi_import_module_from_path(r, PathJoin(dir_path, filename), sources)
                   ELSE r
         IN mi_import_each_file(r1, dir_path, Tail(filenames), sources)

mi_import_modules_from_dir(r, dir_path, sources) ==
    IF ~OsImported THEN [r EXCEPT !.exc = NameError("os")]
    ELSE mi_import_each_file(r, dir_path, ListDir(dir_path), sources)

mi_processing_remains(toprocess) == Len(toprocess) > 0

\* taking the oldest pending address instead of the newest
mi_next_toprocess_oldest(toprocess) == toprocess[1]

mi_next_toprocess(toprocess) == toprocess[Len(toprocess)]

mi_dispatch_processing(r, kind, s, sources) ==
    IF kind = NAME THEN mi_import_module_from_name(r, s, sources)
    ELSE IF kind = FILE THEN mi_import_module_from_path(r, s, sources)
    ELSE IF kind = DIR THEN mi_import_modules_from_dir(r, s, sources)
    ELSE r

\* mi_processed.append(mi_toprocess.pop())
mi_rollover_toprocess(toprocess, processed) ==
    [toprocess |-> SubSeq(toprocess, 1, Len(toprocess) - 1),
     processed |-> Append(processed, toprocess[Len(toprocess)])]

\* a cascade that never looks at what the new modules declare
mi_register_recent_none(st, processed, recent) == st

RECURSIVE mi_register_recent(_, _, _)
\* for mod in mi_recently_processed: mi_register_to_process(its MODULES, mod)
mi_register_recent(st, processed, recent) ==
    IF recent = <<>> THEN st
    ELSE mi_register_recent(
             mi_register_to_process(st, processed, minfo[Head(recent)].MODULES, Head(recent)),
             processed, Tail(recent))

-----------------------------------------------------------------------------
(* Logging and the internal error codes. *)

NOTE == "NOTE"

DBG == "DBG"

WARN == "WARN"

ERR == "ERR"

BADPROGRAMDATA == "BADPROGRAMDATA"

TOOMANYRUNMODULES == "TOOMANYRUNMODULES"

NORUNMODULE == "NORUNMODULE"

\* a log record; TIME and SRC (the clock and the call stack) are left out, and
\* MSG is the list of what the message text names
LogEntry(type_, code, title, msg) == [TYPE |-> type_, CODE |-> code, TITLE |-> title, MSG |-> msg]

\* the outcome of a logging call: the exception raised, logs and ringlogs afterwards
LogResult(e, L, R) == [exc |-> e, logs |-> L, ringlogs |-> R]

log(type_, code, title, msg, L, R) ==
    IF type_ \notin {NOTE, DBG, WARN, ERR} THEN LogResult(ValueError(type_), L, R)
    ELSE LogResult(NoExc, Append(L, LogEntry(type_, code, title, msg)), R)

\* the rotation with the roles of head and tail swapped: evicts the newest entry
ringlog_rotate_newest(P, L, R) ==
    IF P.none THEN LogResult(TypeError("NoneType"), L, R)
    ELSE IF ~P.hasLOGRINGLEN
    THEN log(ERR, BADPROGRAMDATA, "LOGRINGLEN not defined", "LOGRINGLEN", L, R)
    ELSE LogResult(NoExc, L, IF Len(R) > P.LOGRINGLEN THEN Front(R) ELSE R)

\* the rotation without the except clause: the missing key's KeyError escapes
ringlog_rotate_unhandled(P, L, R) ==
    IF P.none THEN LogResult(TypeError("NoneType"), L, R)
    ELSE IF ~P.hasLOGRINGLEN THEN LogResult(KeyError("LOGRINGLEN"), L, R)
    ELSE LogResult(NoExc, L, IF Len(R) > P.LOGRINGLEN THEN Tail(R) ELSE R)

\* the try block of ringlog: g[PROGRAMDATA][LOGRINGLEN] raises TypeError when
\* no program data is loaded and KeyError, which is handled, when the key is missing
ringlog_rotate(P, L, R) ==
    IF P.none THEN LogResult(TypeError("NoneType"), L, R)
    ELSE IF ~P.hasLOGRINGLEN
    THEN log(ERR, BADPROGRAMDATA, "LOGRINGLEN not defined", "LOGRINGLEN", L, R)
    ELSE LogResult(NoExc, L, IF Len(R) > P.LOGRINGLEN THEN Tail(R) ELSE R)

\* a ringlog that copies the new entry into the ring and leaves it in logs
ringlog_mirror(type_, code, title, msg, P, L, R) ==
    LET r == log(type_, code, title, msg, L, R) IN
    IF r.exc # NoExc THEN r
    ELSE ringlog_rotate(P, r.logs, Append(R, Last(r.logs)))

\* P is g[PROGRAMDATA]
ringlog(type_, code, title, msg, P, L, R) ==
    LET r == log(type_, code, title, msg, L, R) IN
    IF r.exc # NoExc THEN r
    ELSE ringlog_rotate(P, Front(r.logs), Append(R, Last(r.logs)))

register_error(code, data_MODULES, L, R) ==
    IF code = TOOMANYRUNMODULES
    THEN log(ERR, code, "Too Many Run Modules", data_MODULES, L, R)
    ELSE IF code = NORUNMODULE
    THEN log(ERR, code, "No Run Module",
             IF modules = <<>> THEN <<"(no modules)">> ELSE modules, L, R)
    ELSE LogResult(ValueError(code), L, R)

-----------------------------------------------------------------------------
(* The census: find_runmodule and find_pulsers. *)

HasRun(m) == minfo[m].run

HasStage(m) == minfo[m].stage

HasPulse(m) == minfo[m].pulse

\* the outcome of find_runmodule past its lock: g[RUNMODULE] and the log
Census(runmodule, r) == [RUNMODULE |-> runmodule, exc |-> r.exc, logs |-> r.logs]

\* a census that is content with at least the needed number of run modules
find_runmodule_body_atleast(mods, need, runmodule, L, R) ==
    LET has_run == SelectSeq(mods, HasRun) IN
    IF Len(has_run) >= need
    THEN IF need = 1 THEN Census(has_run[1], LogResult(NoExc, L, R))
         ELSE Census(runmodule, LogResult(NoExc, L, R))
    ELSE Census(runmodule, register_error(NORUNMODULE, <<>>, L, R))

find_runmodule_body(mods, need, runmodule, L, R) ==
    LET has_run == SelectSeq(mods, HasRun) IN
    IF Len(has_run) = need
    THEN IF need = 1 THEN Census(has_run[1], LogResult(NoExc, L, R))
         ELSE Census(runmodule, LogResult(NoExc, L, R))
    ELSE IF Len(has_run) > need
    THEN Census(runmodule, register_error(TOOMANYRUNMODULES, has_run, L, R))
    ELSE IF Len(has_run) < need
    THEN Census(runmodule, register_error(NORUNMODULE, <<>>, L, R))
    ELSE Census(runmodule, LogResult(NoExc, L, R))

find_pulsers_body(mods, P) == P \o SelectSeq(mods, HasPulse)

-----------------------------------------------------------------------------
(* Interlink: inject_module_symbols and define_snowflakes. *)

kSYMBOLS ==
    <<"PROGRAMDATA", "APPID", "GUID", "TAGURI", "NAME", "TITLE", "TAGS", "DESC",
      "PROGRAM", "EXECUTIONTYPE", "CLITOOL", "WEBSERVER", "FILETALKSERVER",
      "TKINTERGUI", "INTERACTIVEMENU", "LOGRINGLEN", "MODULES", "NAMES", "FILES",
      "DIRS", "RESOURCES", "SYMBOLS", "IMPORTSYMBOLS", "CONFIG", "MODULES",
      "RESOURCES", "SNOWFLAKES", "MODULES", "NRUNMODULES", "NAME", "FILE", "DIR",
      "MI_SRC", "STAGE", "RUNMODULE", "INIT", "SETUP", "LOAD", "POSTLOAD",
      "INTERLINK", "RUNSTART", "RUNSTOP", "PRECLOSE", "SAVE", "POSTSAVE",
      "TEARDOWN", "NOTE", "DBG", "WARN", "ERR", "BADPROGRAMDATA",
      "TOOMANYRUNMODULES", "NORUNMODULE", "TIME", "SRC", "TYPE", "CODE", "TITLE",
      "MSG">>

\* a string of symbols is modelled by its whitespace-separated parts, which
\* s.split() returns and sys.intern leaves equal
intern_symbols(s) == s

RegistryKeys == {"chassis2023"} \cup {ModuleName(m) : m \in Mods}

\* an entry of symbols_from_module
RegEntry(present, symbols) == [present |-> present, symbols |-> symbols]

\* the interlink state: attributes set on modules, the registry, the exception
Link(a, reg, e) == [attrs |-> a, reg |-> reg, exc |-> e]

\* for sym in L: setattr(module, sym, sym)
inject_symbols(a, module, L) == [a EXCEPT ![module] = @ \cup SetOf(L)]

RECURSIVE inject_pass1(_, _)
\* the first loop of inject_module_symbols
inject_pass1(k, mods) ==
    IF mods = <<>> \/ k.exc # NoExc THEN k
    ELSE LET mod == Head(mods) IN
         IF ~minfo[mod].hasSYMBOLS
         THEN [k EXCEPT !.exc = AttributeError("NoneType", "split")]
         ELSE LET symbols == intern_symbols(minfo[mod].SYMBOLS) IN
              inject_pass1(Link(inject_symbols(k.attrs, mod, symbols),
                                [k.reg EXCEPT ![ModuleName(mod)] = RegEntry(TRUE, symbols)],
                                k.exc),
                           Tail(mods))

RECURSIVE inject_requests(_, _, _)
\* for req in requests: inject_symbols(mod, symbols_from_module[req])
inject_requests(k, mod, requests) ==
    IF requests = <<>> \/ k.exc # NoExc THEN k
    ELSE LET rq == Head(requests) IN
         IF rq \notin RegistryKeys \/ ~k.reg[rq].present
         THEN [k EXCEPT !.exc = KeyError(rq)]
         ELSE inject_requests([k EXCEPT !.attrs = inject_symbols(@, mod, k.reg[rq].symbols)],
                              mod, Tail(requests))

RECURSIVE inject_pass2(_, _)
\* the second loop of inject_module_symbols
inject_pass2(k, mods) ==
    IF mods = <<>> \/ k.exc # NoExc THEN k
    ELSE inject_pass2(inject_requests(k, Head(mods), minfo[Head(mods)].IMPORTSYMBOLS), Tail(mods))

RECURSIVE inject_module_symbols_one_loop(_, _)
\* one loop doing both jobs: each module's requests are resolved right after
\* its own vocabulary is recorded
inject_module_symbols_one_loop(k, mods) ==
    IF mods = <<>> \/ k.exc # NoExc THEN k
    ELSE inject_module_symbols_one_loop(
             inject_pass2(inject_pass1(k, <<Head(mods)>>), <<Head(mods)>>), Tail(mods))

inject_module_symbols(k, mods) == inject_pass2(inject_pass1(k, mods), mods)

-----------------------------------------------------------------------------
(* snowflakes.py *)

SnowNames == {"s1", "s2"}

SESSION == "SESSION"

EXPORTED == "EXPORTED"

\* a snowflake specification as define() documents it
SnowSpec(name, default, policy) == [NAME |-> name, DEFAULT |-> default, POLICY |-> policy]

\* an entry of db: the copied specification; hasNEXT tells whether the key NEXT is set
SnowEntry(spec, hasNEXT, nxt) ==
    [NAME |-> spec.NAME, DEFAULT |-> spec.DEFAULT, POLICY |-> spec.POLICY,
     hasNEXT |-> hasNEXT, NEXT |-> nxt]

\* the allocator state: db, and byname as the index in db of each name's entry (0: no key)
Snow(d, b) == [db |-> d, byname |-> b]

define(s, snowflake_spec) ==
    LET entry_ == SnowEntry(snowflake_spec, FALSE, 0) IN
    Snow(Append(s.db, entry_), [s.byname EXCEPT ![entry_.NAME] = Len(s.db) + 1])

RECURSIVE define_each(_, _)
\* for _def in definitions: snowflakes.define(_def)
define_each(s, definitions) ==
    IF definitions = <<>> THEN s
    ELSE define_each(define(s, Head(definitions)), Tail(definitions))

RECURSIVE define_snowflakes(_, _)
define_snowflakes(s, mods) ==
    IF mods = <<>> THEN s
    ELSE define_snowflakes(define_each(s, minfo[Head(mods)].SNOWFLAKES), Tail(mods))

\* the names a JSON object handed to import_from_jsondict may hold
JsonNames == SnowNames \cup {"s3"}

\* a key of a JSON object: whether it is there, and its value
JsonValue(present, val) == [present |-> present, val |-> val]

JsonAbsent == JsonValue(FALSE, 0)

\* D.get(NEXT, D[DEFAULT])
Pointer(D) == IF D.hasNEXT THEN D.NEXT ELSE D.DEFAULT

defined(d, name) == \E i \in 1..Len(d) : d[i].NAME = name

export_to_jsondict(d) ==
    [n \in JsonNames |->
        LET is == {i \in 1..Len(d) : d[i].POLICY = EXPORTED /\ d[i].NAME = n} IN
        IF is = {} THEN JsonAbsent
        ELSE JsonValue(TRUE, Pointer(d[CHOOSE i \in is : \A j \in is : j <= i]))]

\* an import that overwrites every sequence named in the mapping, whatever its policy
import_from_jsondict_any_policy(d, json_D) ==
    [i \in 1..Len(d) |->
        IF json_D[d[i].NAME].present
        THEN [d[i] EXCEPT !.hasNEXT = TRUE, !.NEXT = json_D[d[i].NAME].val]
        ELSE d[i]]

import_from_jsondict(d, json_D) ==
    [i \in 1..Len(d) |->
        IF d[i].POLICY = EXPORTED /\ json_D[d[i].NAME].present
        THEN [d[i] EXCEPT !.hasNEXT = TRUE, !.NEXT = json_D[d[i].NAME].val]
        ELSE d[i]]

\* the outcome of a snowflakes call: the allocator, the exception, the value returned
SnowResult(s, e, ret) == [snow |-> s, exc |-> e, ret |-> ret]

\* a next() that hands out the pointer without advancing it
next_stuck(s, name) ==
    IF s.byname[name] = 0 THEN SnowResult(s, KeyError(name), 0)
    ELSE LET i == s.byname[name]
             n == Pointer(s.db[i])
         IN SnowResult(Snow([s.db EXCEPT ![i].hasNEXT = TRUE, ![i].NEXT = n], s.byname), NoExc, n)

next(s, name) ==
    IF s.byname[name] = 0 THEN SnowResult(s, KeyError(name), 0)
    ELSE LET i == s.byname[name]
             n == Pointer(s.db[i])
         IN SnowResult(Snow([s.db EXCEPT ![i].hasNEXT = TRUE, ![i].NEXT = n + 1], s.byname), NoExc, n)

\* reset(name, val); hasval is FALSE for val=None
reset(s, name, hasval, val) ==
    IF s.byname[name] = 0 THEN SnowResult(s, KeyError(name), 0)
    ELSE LET i == s.byname[name] IN
         SnowResult(Snow([s.db EXCEPT ![i].hasNEXT = TRUE,
                                      ![i].NEXT = IF hasval THEN val ELSE s.db[i].DEFAULT],
                         s.byname),
                    NoExc, 0)

-----------------------------------------------------------------------------
(* The stage runner. *)

INIT == "INIT"

SETUP == "SETUP"

LOAD == "LOAD"

POSTLOAD == "POSTLOAD"

INTERLINK == "INTERLINK"

RUNSTART == "RUNSTART"

RUNSTOP == "RUNSTOP"

PRECLOSE == "PRECLOSE"

SAVE == "SAVE"

POSTSAVE == "POSTSAVE"

TEARDOWN == "TEARDOWN"

\* what the history records: g[STAGE] being set, a module's stage() being called
\* (with g[STAGE] as the hook sees it), the run module's run(), the tk23 calls
Event(ev, stage, mod) == [ev |-> ev, stage |-> stage, mod |-> mod]

\* the stage runner's state: g[STAGE], the history, the exception
Run(stage, tr, e) == [STAGE |-> stage, trace |-> tr, exc |-> e]

RECURSIVE call_stage_hooks(_, _)
\* for m in modules: fn = getattr(m, "stage", None); if fn: fn()
call_stage_hooks(s, mods) ==
    IF mods = <<>> THEN s
    ELSE call_stage_hooks(
             IF HasStage(Head(mods))
             THEN [s EXCEPT !.trace = Append(@, Event("hook", s.STAGE, Head(mods)))]
             ELSE s,
             Tail(mods))

\* a stage whose hooks run before g[STAGE] is set
perform_stage_hooks_first(s, stage, mods) ==
    IF s.exc # NoExc THEN s
    ELSE LET h == call_stage_hooks(s, mods) IN
         Run(stage, Append(h.trace, Event("stage", stage, None)), h.exc)

perform_stage(s, stage, mods) ==
    IF s.exc # NoExc THEN s
    ELSE call_stage_hooks(Run(stage, Append(s.trace, Event("stage", stage, None)), s.exc), mods)

\* import tk23base; tk23base.setup()
tk23base_setup(s) ==
    IF s.exc # NoExc THEN s
    ELSE IF ~tk_installed THEN [s EXCEPT !.exc = Exc(NotFound, "tk23base", None)]
    ELSE [s EXCEPT !.trace = Append(@, Event("tk23base.setup", s.STAGE, "tk23base"))]

\* import tk23process; tk23process.run()
tk23process_run(s) ==
    IF s.exc # NoExc THEN s
    ELSE IF ~tk_installed THEN [s EXCEPT !.exc = Exc(NotFound, "tk23process", None)]
    ELSE [s EXCEPT !.trace = Append(@, Event("tk23process.run", s.STAGE, "tk23process"))]

perform_setup(s, mods, exectype) ==
    LET s1 == perform_stage(s, INIT, mods)
        s2 == IF exectype = TKINTERGUI THEN tk23base_setup(s1) ELSE s1
        s3 == perform_stage(s2, SETUP, mods)
        s4 == perform_stage(s3, LOAD, mods)
        s5 == perform_stage(s4, POSTLOAD, mods)
    IN perform_stage(s5, INTERLINK, mods)

perform_run(s, mods, exectype, runmodule) ==
    LET s1 == perform_stage(s, RUNSTART, mods)
        s2 == IF s1.exc # NoExc THEN s1
              ELSE IF runmodule # None
              THEN [s1 EXCEPT !.trace = Append(@, Event("run", s1.STAGE, runmodule))]
              ELSE IF exectype = TKINTERGUI THEN tk23process_run(s1)
              ELSE s1
    IN perform_stage(s2, RUNSTOP, mods)

perform_teardown(s, mods) ==
    LET s1 == perform_stage(s, PRECLOSE, mods)
        s2 == perform_stage(s1, SAVE, mods)
        s3 == perform_stage(s2, POSTSAVE, mods)
    IN perform_stage(s3, TEARDOWN, mods)

-----------------------------------------------------------------------------
(* The state after setup(), and the worlds a process may start in. *)

\* g[PROGRAMDATA] once loaded: the MODULES dict, PROGRAM's EXECUTIONTYPE, and
\* LOGRINGLEN when the key is there; none is TRUE for the None that setup_g() sets
ProgramData(none, mods, exectype, hasLOGRINGLEN, ringlen) ==
    [none |-> none, MODULES |-> mods, EXECUTIONTYPE |-> exectype,
     hasLOGRINGLEN |-> hasLOGRINGLEN, LOGRINGLEN |-> ringlen]

NoProgramData == ProgramData(TRUE, EmptySpec, None, FALSE, 0)

\* a module: its kMODULE_INFO (MODULES, SYMBOLS, IMPORTSYMBOLS, SNOWFLAKES) and
\* which of run, stage and pulse it defines
Info(mods, run, stage, pulse, hasSYMBOLS, symbols, importsymbols, snowflakes) ==
    [MODULES |-> mods, run |-> run, stage |-> stage, pulse |-> pulse,
     hasSYMBOLS |-> hasSYMBOLS, SYMBOLS |-> symbols,
     IMPORTSYMBOLS |-> importsymbols, SNOWFLAKES |-> snowflakes]

\* a lock-guard call made from outside: the lock set it found, how it ended,
\* and the lock set it left
GuardCall(op, key, before, e, after) ==
    [op |-> op, key |-> key, before |-> before, exc |-> e, after |-> after]

\* an import_from_jsondict(json_D) call: the db it found and the mapping it was given
ImportCall(done, before, json_D) == [done |-> done, before |-> before, json_D |-> json_D]

NoImport == ImportCall(FALSE, <<>>, [n \in JsonNames |-> JsonAbsent])

\* the values next(name) returned since define(name); dropped, and no longer
\* recorded, once a reset or an import breaks the series
Streak(vals, live) == [vals |-> vals, live |-> live]

\* the MODULES dicts that list exactly k addresses
SpecsOfSize(k) ==
    {ModSpec(t[1], t[2], t[3]) :
        t \in UNION {UNION {SeqsOfLen(DeclDirs, i) \X SeqsOfLen(DeclFiles, j) \X SeqsOfLen(DeclNames, k - i - j) :
                                j \in 0..(k - i)} : i \in 0..k} }

InitProcess ==
    /\ pc = "load_programdata"
    /\ entry = "run"
    /\ ncalls = 0
    /\ exc = NoExc
    /\ g_PROGRAMDATA = NoProgramData
    /\ g_MI_SRC = None
    /\ g_RUNMODULE = None
    /\ g_STAGE = None
    /\ locks = {}
    /\ modules = <<>>
    /\ pulsers = <<>>
    /\ mi_toprocess = <<>>
    /\ mi_processed = <<>>
    /\ mi_recently_processed = <<>>
    /\ mi_processing_sources = [a \in Addrs |-> Absent]
    /\ symbols_from_module =
           [k \in RegistryKeys |->
               IF k = "chassis2023" THEN RegEntry(TRUE, intern_symbols(kSYMBOLS))
               ELSE RegEntry(FALSE, <<>>)]
    /\ attrs = [m \in Mods |-> {}]
    /\ logs = <<>>
    /\ ringlogs = <<>>
    /\ db = <<>>
    /\ byname = [n \in SnowNames |-> 0]
    /\ enqlog = <<>>
    /\ reqlog = <<>>
    /\ disp = [addr |-> <<None, None>>, pending |-> {}]
    /\ nexec = [gather_modules |-> 0, mi_seed_from_programdata |-> 0,
                mi_seed_from_executiontype |-> 0, mi_cascade_processing |-> 0]
    /\ trace = <<>>
    /\ calls = <<>>
    /\ logcalls = <<>>
    /\ exported = [n \in JsonNames |-> JsonAbsent]
    /\ exported_defs = 0
    /\ lastimport = NoImport
    /\ streak = [n \in SnowNames |-> Streak(<<>>, FALSE)]

PlainInfo == Info(EmptySpec, FALSE, FALSE, FALSE, TRUE, <<>>, <<>>, <<>>)

\* worlds for the intake: programdata.json, mod_a and mod_b declare up to
\* MaxAddrs addresses between them
InitIntakeWorld ==
    \E ka \in 0..MaxAddrs, kb \in 0..MaxAddrs, kp \in 0..MaxAddrs :
      /\ ka + kb + kp <= MaxAddrs
      /\ \E am \in SpecsOfSize(ka), bm \in SpecsOfSize(kb), pm \in SpecsOfSize(kp) :
         \E et \in {CLITOOL, TKINTERGUI} :
           /\ disk_programdata = ProgramData(FALSE, pm, et, TRUE, 3)
           /\ tk_installed \in (IF et = TKINTERGUI THEN BOOLEAN ELSE {FALSE})
           /\ minfo = [m \in Mods |->
                 CASE m = "mod_a" -> Info(am, TRUE, TRUE, FALSE, TRUE, <<"A1">>, <<>>,
                                          <<SnowSpec("s1", 0, EXPORTED)>>)
                   [] m = "mod_b" -> Info(bm, FALSE, TRUE, TRUE, TRUE, <<"B1">>, <<>>, <<>>)
                   [] m = "mod_c" -> Info(EmptySpec, TRUE, FALSE, FALSE, TRUE, <<>>, <<>>, <<>>)
                   [] OTHER -> PlainInfo]

Init == InitProcess /\ InitIntakeWorld

\* what programdata.json lists under NAMES in the worlds for the stage runner
RunSeeds == {<<>>, <<"a">>, <<"a", "b">>, <<"c", "a", "b">>}

\* worlds for the census and the stage runner: which modules define run and
\* stage, whether mod_b declares SYMBOLS, and every execution type
InitRunWorld ==
    \E seeds \in RunSeeds, runs \in SUBSET UserMods, stages \in SUBSET UserMods :
    \E nosym \in {{}, {"mod_b"}}, et \in DOMAIN execution_types :
      /\ disk_programdata = ProgramData(FALSE, ModSpec(<<>>, <<>>, seeds), et, TRUE, 3)
      /\ tk_installed \in (IF et = TKINTERGUI THEN BOOLEAN ELSE {FALSE})
      /\ minfo = [m \in Mods |->
            IF m \in UserMods
            THEN Info(EmptySpec, m \in runs, m \in stages, FALSE, m \notin nosym, <<>>, <<>>, <<>>)
            ELSE PlainInfo]

InitRun == InitProcess /\ InitRunWorld

-----------------------------------------------------------------------------
(* run(): perform_prep, perform_setup, perform_run, perform_teardown. *)

worldvars == <<disk_programdata, minfo, tk_installed>>

intakevars == <<modules, mi_toprocess, mi_processed, mi_recently_processed,
                mi_processing_sources, g_MI_SRC, enqlog, reqlog, disp>>

linkvars == <<symbols_from_module, attrs>>

snowvars == <<db, byname, streak, exported, exported_defs, lastimport>>

logvars == <<logs, ringlogs>>

stagevars == <<g_STAGE, trace>>

callvars == <<entry, ncalls, calls, logcalls>>

\* an exception nothing catches ends the call
Raise(e) == pc' = "raised" /\ exc' = e

\* a run() that reports and returns when perform_prep() logged anything
run_after_prep_unless_logged(L) == IF L # <<>> THEN "returned" ELSE "perform_setup"

\* run() goes on to perform_setup() after perform_prep(), whatever was logged
run_after_prep(L) == "perform_setup"

\* gather_modules() returns into perform_prep(), or to the outside caller
gather_modules_return == IF entry = "run" THEN "find_runmodule" ELSE "returned"

LoadProgramdata ==
    /\ pc = "load_programdata"
    /\ g_PROGRAMDATA' = disk_programdata
    /\ pc' = "gather_modules"
    /\ UNCHANGED <<exc, g_RUNMODULE, locks, pulsers, nexec>>
    /\ UNCHANGED <<worldvars, intakevars, linkvars, snowvars, logvars, stagevars, callvars>>

GatherModules ==
    /\ pc = "gather_modules"
    /\ LET r == lock(GatherKey, locks) IN
       IF r.exc # NoExc THEN Raise(r.exc) /\ UNCHANGED <<locks, nexec>>
       ELSE /\ locks' = r.locks
            /\ nexec' = [nexec EXCEPT !.gather_modules = @ + 1]
            /\ pc' = "mi_seed_from_programdata"
            /\ UNCHANGED exc
    /\ UNCHANGED <<g_PROGRAMDATA, g_RUNMODULE, pulsers>>
    /\ UNCHANGED <<worldvars, intakevars, linkvars, snowvars, logvars, stagevars, callvars>>

\* the queue state after a seeding or cascading step
SetIntake(st) ==
    /\ mi_toprocess' = st.toprocess
    /\ mi_processing_sources' = st.sources
    /\ g_MI_SRC' = st.src
    /\ enqlog' = st.enqlog
    /\ reqlog' = st.reqlog

SeedFromProgramdata ==
    /\ pc = "mi_seed_from_programdata"
    /\ LET r == lock(SeedProgramdataKey, locks) IN
       IF r.exc # NoExc
       THEN Raise(r.exc) /\ UNCHANGED <<locks, nexec, mi_toprocess, mi_processing_sources, g_MI_SRC, enqlog, reqlog>>
       ELSE /\ locks' = r.locks
            /\ nexec' = [nexec EXCEPT !.mi_seed_from_programdata = @ + 1]
            /\ SetIntake(mi_register_to_process(
                   Intake(mi_toprocess, mi_processing_sources, g_MI_SRC, enqlog, reqlog),
                   mi_processed, g_PROGRAMDATA.MODULES, "programdata.json"))
            /\ pc' = "mi_seed_from_executiontype"
            /\ UNCHANGED exc
    /\ UNCHANGED <<g_PROGRAMDATA, g_RUNMODULE, pulsers>>
    /\ UNCHANGED <<modules, mi_processed, mi_recently_processed, disp>>
    /\ UNCHANGED <<worldvars, linkvars, snowvars, logvars, stagevars, callvars>>

SeedFromExecutiontype ==
    /\ pc = "mi_seed_from_executiontype"
    /\ LET r == lock(SeedExecutiontypeKey, locks) IN
       IF r.exc # NoExc
       THEN Raise(r.exc) /\ UNCHANGED <<locks, nexec, mi_toprocess, mi_processing_sources, g_MI_SRC, enqlog, reqlog>>
       ELSE /\ locks' = r.locks
            /\ nexec' = [nexec EXCEPT !.mi_seed_from_executiontype = @ + 1]
            /\ SetIntake(mi_register_to_process(
                   Intake(mi_toprocess, mi_processing_sources, g_MI_SRC, enqlog, reqlog),
                   mi_processed, execution_type_D.MODULES,
                   ExecTypeSource(execution_type_D.NAME)))
            /\ pc' = "mi_cascade_processing"
            /\ UNCHANGED exc
    /\ UNCHANGED <<g_PROGRAMDATA, g_RUNMODULE, pulsers>>
    /\ UNCHANGED <<modules, mi_processed, mi_recently_processed, disp>>
    /\ UNCHANGED <<worldvars, linkvars, snowvars, logvars, stagevars, callvars>>

CascadeProcessing ==
    /\ pc = "mi_cascade_processing"
    /\ LET r == lock(CascadeKey, locks) IN
       IF r.exc # NoExc THEN Raise(r.exc) /\ UNCHANGED <<locks, nexec>>
       ELSE /\ locks' = r.locks
            /\ nexec' = [nexec EXCEPT !.mi_cascade_processing = @ + 1]
            /\ pc' = "cascade_loop"
            /\ UNCHANGED exc
    /\ UNCHANGED <<g_PROGRAMDATA, g_RUNMODULE, pulsers>>
    /\ UNCHANGED <<worldvars, intakevars, linkvars, snowvars, logvars, stagevars, callvars>>

\* one turn of the while loop of mi_cascade_processing
CascadeStep ==
    /\ pc = "cascade_loop"
    /\ mi_processing_remains(mi_toprocess)
    /\ LET tup == mi_next_toprocess(mi_toprocess)
           r == mi_dispatch_processing(Reg(modules, mi_recently_processed, NoExc),
                                       tup[1], tup[2], mi_processing_sources)
       IN /\ disp' = [addr |-> tup, pending |-> SetOf(mi_toprocess)]
          /\ modules' = r.modules
          /\ IF r.exc # NoExc
             THEN /\ Raise(r.exc)
                  /\ mi_recently_processed' = r.recent
                  /\ UNCHANGED <<mi_toprocess, mi_processed, mi_processing_sources, g_MI_SRC, enqlog, reqlog>>
             ELSE LET rolled == mi_rollover_toprocess(mi_toprocess, mi_processed) IN
                  /\ mi_processed' = rolled.processed
                  /\ SetIntake(mi_register_recent(
                         Intake(rolled.toprocess, mi_processing_sources, g_MI_SRC, enqlog, reqlog),
                         rolled.processed, r.recent))
                  /\ mi_recently_processed' = <<>>
                  /\ UNCHANGED <<pc, exc>>
    /\ UNCHANGED <<g_PROGRAMDATA, g_RUNMODULE, locks, pulsers, nexec>>
    /\ UNCHANGED <<worldvars, linkvars, snowvars, logvars, stagevars, callvars>>

\* the while loop ends; mi_cascade_processing and gather_modules return
CascadeExit ==
    /\ pc = "cascade_loop"
    /\ ~mi_processing_remains(mi_toprocess)
    /\ pc' = gather_modules_return
    /\ UNCHANGED <<exc, g_PROGRAMDATA, g_RUNMODULE, locks, pulsers, nexec>>
    /\ UNCHANGED <<worldvars, intakevars, linkvars, snowvars, logvars, stagevars, callvars>>

FindRunmodule ==
    /\ pc = "find_runmodule"
    /\ LET r == lock(FindRunmoduleKey, locks) IN
       IF r.exc # NoExc THEN Raise(r.exc) /\ UNCHANGED <<locks, g_RUNMODULE, logs>>
       ELSE LET c == find_runmodule_body(modules, execution_type_D.NRUNMODULES,
                                         g_RUNMODULE, logs, ringlogs) IN
            /\ locks' = r.locks
            /\ g_RUNMODULE' = c.RUNMODULE
            /\ logs' = c.logs
            /\ IF c.exc # NoExc THEN Raise(c.exc)
               ELSE pc' = "find_pulsers" /\ UNCHANGED exc
    /\ UNCHANGED <<g_PROGRAMDATA, pulsers, nexec, ringlogs>>
    /\ UNCHANGED <<worldvars, intakevars, linkvars, snowvars, stagevars, callvars>>

FindPulsers ==
    /\ pc = "find_pulsers"
    /\ LET r == lock(FindPulsersKey, locks) IN
       IF r.exc # NoExc THEN Raise(r.exc) /\ UNCHANGED <<locks, pulsers>>
       ELSE /\ locks' = r.locks
            /\ pulsers' = find_pulsers_body(modules, pulsers)
            /\ pc' = "inject_module_symbols"
            /\ UNCHANGED exc
    /\ UNCHANGED <<g_PROGRAMDATA, g_RUNMODULE, nexec>>
    /\ UNCHANGED <<worldvars, intakevars, linkvars, snowvars, logvars, stagevars, callvars>>

InjectModuleSymbols ==
    /\ pc = "inject_module_symbols"
    /\ LET k == inject_module_symbols(Link(attrs, symbols_from_module, NoExc), modules) IN
       /\ attrs' = k.attrs
       /\ symbols_from_module' = k.reg
       /\ IF k.exc # NoExc THEN Raise(k.exc)
          ELSE pc' = "define_snowflakes" /\ UNCHANGED exc
    /\ UNCHANGED <<g_PROGRAMDATA, g_RUNMODULE, locks, pulsers, nexec>>
    /\ UNCHANGED <<worldvars, intakevars, snowvars, logvars, stagevars, callvars>>

\* define_snowflakes(), the last step of perform_prep()
DefineSnowflakes ==
    /\ pc = "define_snowflakes"
    /\ LET s == define_snowflakes(Snow(db, byname), modules) IN
       /\ db' = s.db
       /\ byname' = s.byname
    /\ pc' = run_after_prep(logs)
    /\ UNCHANGED <<exc, g_PROGRAMDATA, g_RUNMODULE, locks, pulsers, nexec, streak, exported, exported_defs,
                 lastimport>>
    /\ UNCHANGED <<worldvars, intakevars, linkvars, logvars, stagevars, callvars>>

\* a step of the stage runner: the state it leaves, and where run() goes next
StageStep(s, nextpc) ==
    /\ g_STAGE' = s.STAGE
    /\ trace' = s.trace
    /\ IF s.exc # NoExc THEN Raise(s.exc)
       ELSE pc' = nextpc /\ UNCHANGED exc
    /\ UNCHANGED <<g_PROGRAMDATA, g_RUNMODULE, locks, pulsers, nexec>>
    /\ UNCHANGED <<worldvars, intakevars, linkvars, snowvars, logvars, callvars>>

PerformSetup ==
    /\ pc = "perform_setup"
    /\ StageStep(perform_setup(Run(g_STAGE, trace, NoExc), modules, execution_type_D.NAME),
                 "perform_run")

PerformRun ==
    /\ pc = "perform_run"
    /\ StageStep(perform_run(Run(g_STAGE, trace, NoExc), modules, execution_type_D.NAME, g_RUNMODULE),
                 "perform_teardown")

PerformTeardown ==
    /\ pc = "perform_teardown"
    /\ StageStep(perform_teardown(Run(g_STAGE, trace, NoExc), modules), "returned")

\* once a call has ended, the caller invokes gather_modules() again
GatherModulesAgain ==
    /\ pc \in {"returned", "raised"}
    /\ ncalls < MaxCalls
    /\ ncalls' = ncalls + 1
    /\ entry' = "gather_modules"
    /\ pc' = "gather_modules"
    /\ exc' = NoExc
    /\ UNCHANGED <<g_PROGRAMDATA, g_RUNMODULE, locks, pulsers, nexec, calls, logcalls>>
    /\ UNCHANGED <<worldvars, intakevars, linkvars, snowvars, logvars, stagevars>>

Next ==
    \/ LoadProgramdata
    \/ GatherModules
    \/ SeedFromProgramdata
    \/ SeedFromExecutiontype
    \/ CascadeProcessing
    \/ CascadeStep
    \/ CascadeExit
    \/ FindRunmodule
    \/ FindPulsers
    \/ InjectModuleSymbols
    \/ DefineSnowflakes
    \/ PerformSetup
    \/ PerformRun
    \/ PerformTeardown
    \/ GatherModulesAgain

Spec == Init /\ [][Next]_vars

SpecRun == InitRun /\ [][Next]_vars

\* the module lists the interlink worlds are built from
LinkSeeds == {<<"a", "b">>, <<"b", "a">>, <<"a", "b", "c">>, <<"c", "b", "a">>}

\* the SYMBOLS of each module, as the parts of the string
Vocabulary(m) ==
    CASE m = "mod_a" -> <<"A1", "A2">>
      [] m = "mod_b" -> <<"B1">>
      [] OTHER -> <<>>

\* the IMPORTSYMBOLS lists: modules of the list, chassis2023, an unknown name
LinkRequests == {<<>>, <<"a">>, <<"b">>, <<"c">>, <<"b", "a">>, <<"chassis2023">>, <<"zz">>}

\* worlds for the interlink: who declares which vocabulary and requests whose
InitLinkWorld ==
    \E seeds \in LinkSeeds, nosym \in SUBSET {"mod_c"}, imp \in [UserMods -> LinkRequests] :
      /\ disk_programdata = ProgramData(FALSE, ModSpec(<<>>, <<>>, seeds), CLITOOL, TRUE, 3)
      /\ tk_installed = FALSE
      /\ minfo = [m \in Mods |->
            IF m \in UserMods
            THEN Info(EmptySpec, m = "mod_a", FALSE, FALSE, m \notin nosym,
                      Vocabulary(m), imp[m], <<>>)
            ELSE PlainInfo]

InitLink == InitProcess /\ InitLinkWorld

SpecLink == InitLink /\ [][Next]_vars

-----------------------------------------------------------------------------
(* The lock guard and the allocator, called from outside. *)

\* a process whose program data names no modules
InitIdleWorld ==
    /\ disk_programdata = ProgramData(FALSE, EmptySpec, CLITOOL, TRUE, 3)
    /\ tk_installed = FALSE
    /\ minfo = [m \in Mods |-> PlainInfo]

InitIdle == InitProcess /\ InitIdleWorld

LockKeys == {"k1", "k2"}

processvars == <<pc, entry, ncalls, exc, g_PROGRAMDATA, g_RUNMODULE, pulsers, nexec>>

\* the caller catches what the call raises: only the lock set is left changed
GuardStep(op, key, r) ==
    /\ Len(calls) < MaxGuardCalls
    /\ locks' = r.locks
    /\ calls' = Append(calls, GuardCall(op, key, locks, r.exc, r.locks))
    /\ UNCHANGED <<processvars, logcalls>>
    /\ UNCHANGED <<worldvars, intakevars, linkvars, snowvars, logvars, stagevars>>

CallLock == \E k \in LockKeys : GuardStep("lock", k, lock(k, locks))

CallUnlock == \E k \in LockKeys : GuardStep("unlock", k, unlock(k, locks))

CallReq == \E k \in LockKeys : GuardStep("req", k, req(k, locks))

CallForbid == \E k \in LockKeys : GuardStep("forbid", k, forbid(k, locks))

NextLock == CallLock \/ CallUnlock \/ CallReq \/ CallForbid

SpecLock == InitIdle /\ [][NextLock]_vars

SnowDefaults == {0, 1}

SnowSpecs == {SnowSpec(n, d, p) : n \in SnowNames, d \in SnowDefaults, p \in {SESSION, EXPORTED}}

\* a JSON object written by another session: s1 and the unknown s3
ForeignJson == [n \in JsonNames |-> IF n = "s2" THEN JsonAbsent ELSE JsonValue(TRUE, 1)]

SnowStep(s) ==
    /\ db' = s.db
    /\ byname' = s.byname
    /\ UNCHANGED <<processvars, locks, calls, logcalls>>
    /\ UNCHANGED <<worldvars, intakevars, linkvars, logvars, stagevars>>

CallDefine ==
    \E sp \in SnowSpecs :
      /\ Len(db) < MaxDefs
      /\ SnowStep(define(Snow(db, byname), sp))
      /\ streak' = [streak EXCEPT ![sp.NAME] = Streak(<<>>, TRUE)]
      /\ lastimport' = NoImport
      /\ UNCHANGED <<exported, exported_defs>>

CallNext ==
    \E name \in SnowNames :
      /\ byname[name] # 0 => Pointer(db[byname[name]]) < MaxNext
      /\ LET r == next(Snow(db, byname), name) IN
         /\ SnowStep(r.snow)
         /\ streak' = IF r.exc = NoExc /\ streak[name].live
                       THEN [streak EXCEPT ![name].vals = Append(@, r.ret)]
                       ELSE streak
      /\ lastimport' = NoImport
      /\ UNCHANGED <<exported, exported_defs>>

CallReset ==
    \E name \in SnowNames, hasval \in BOOLEAN :
      LET r == reset(Snow(db, byname), name, hasval, 1) IN
      /\ SnowStep(r.snow)
      /\ streak' = IF r.exc = NoExc THEN [streak EXCEPT ![name] = Streak(<<>>, FALSE)] ELSE streak
      /\ lastimport' = NoImport
      /\ UNCHANGED <<exported, exported_defs>>

CallExport ==
    /\ exported' = export_to_jsondict(db)
    /\ exported_defs' = Len(db)
    /\ lastimport' = NoImport
    /\ SnowStep(Snow(db, byname))
    /\ UNCHANGED streak

CallImport ==
    \E json_D \in {exported, ForeignJson} :
      /\ SnowStep(Snow(import_from_jsondict(db, json_D), byname))
      /\ streak' = [n \in SnowNames |-> Streak(<<>>, FALSE)]
      /\ lastimport' = ImportCall(TRUE, db, json_D)
      /\ UNCHANGED <<exported, exported_defs>>

NextSnow == CallDefine \/ CallNext \/ CallReset \/ CallExport \/ CallImport

SpecSnow == InitIdle /\ [][NextSnow]_vars

-----------------------------------------------------------------------------
(* The logger, called from outside, before or after the program data is loaded. *)

\* the LOGRINGLEN values of the program data files
RingLens == {0, 1, 3}

InitLogWorld ==
    /\ \E has \in BOOLEAN, len \in RingLens :
         /\ ~has => len = 0
         /\ disk_programdata = ProgramData(FALSE, EmptySpec, CLITOOL, has, len)
    /\ tk_installed = FALSE
    /\ minfo = [m \in Mods |-> PlainInfo]

InitLog == InitProcess /\ InitLogWorld

\* the severities callers pass: two of the four valid ones and an invalid one
Severities == {NOTE, ERR, "FATAL"}

\* a log()/ringlog() call: what it found, how it ended and what it left
LogCall(op, type_, msg, P, L, R, r) ==
    [op |-> op, type_ |-> type_, entry |-> LogEntry(type_, "USER", "title", msg),
     P |-> P, logs |-> L, ringlogs |-> R,
     exc |-> r.exc, logs_after |-> r.logs, ringlogs_after |-> r.ringlogs]

\* the caller catches what the call raises; every call passes a message of its own
LogStep(op, type_, msg, r) ==
    /\ Len(logcalls) < MaxLogCalls
    /\ logs' = r.logs
    /\ ringlogs' = r.ringlogs
    /\ logcalls' = Append(logcalls, LogCall(op, type_, msg, g_PROGRAMDATA, logs, ringlogs, r))
    /\ UNCHANGED <<processvars, locks, calls>>
    /\ UNCHANGED <<worldvars, intakevars, linkvars, snowvars, stagevars>>

CallLog ==
    \E type_ \in Severities :
      LET msg == ToString(Len(logcalls) + 1) IN
      LogStep("log", type_, msg, log(type_, "USER", "title", msg, logs, ringlogs))

CallRinglog ==
    \E type_ \in Severities :
      LET msg == ToString(Len(logcalls) + 1) IN
      LogStep("ringlog", type_, msg,
              ringlog(type_, "USER", "title", msg, g_PROGRAMDATA, logs, ringlogs))

NextLog == LoadProgramdata \/ CallLog \/ CallRinglog

SpecLog == InitLog /\ [][NextLog]_vars

-----------------------------------------------------------------------------
(* Properties of the intake. *)

\* the addresses a MODULES dict lists
AddrsOf(spec) ==
    {<<DIR, p>> : p \in SetOf(spec.DIRS)} \cup {<<FILE, p>> : p \in SetOf(spec.FILES)}
        \cup {<<NAME, n>> : n \in SetOf(spec.NAMES)}

\* the two seed sets: programdata.json's modules and the execution type's
SeedAddrs ==
    AddrsOf(disk_programdata.MODULES)
        \cup AddrsOf(execution_types[disk_programdata.EXECUTIONTYPE].MODULES)

\* the modules an address stands for
ResolvesTo(a) ==
    IF a[1] = NAME THEN {ImportModule(a[2])} \cap Mods
    ELSE IF a[1] = FILE THEN {ExecFile(a[2])} \cap Mods
    ELSE {ExecFile(PathJoin(a[2], f)) : f \in {x \in SetOf(ListDir(a[2])) : IsPyFile(x)}} \cap Mods

ModulesOf(S) == UNION {ResolvesTo(a) : a \in S}

ClosureStep(S) == S \cup UNION {AddrsOf(minfo[m].MODULES) : m \in ModulesOf(S)}

RECURSIVE Closure(_)
\* the addresses reachable from S through the modules' declared sub-addresses
Closure(S) == IF ClosureStep(S) = S THEN S ELSE Closure(ClosureStep(S))

\* mi_cascade_processing has run and has emptied the queue
DiscoveryComplete == nexec.mi_cascade_processing >= 1 /\ mi_toprocess = <<>> /\ pc # "cascade_loop"

\* seed [ByName a], a declares ByName b, b declares nothing
ScenarioAB ==
    /\ SeedAddrs = {<<NAME, "a">>}
    /\ minfo["mod_a"].MODULES = ModSpec(<<>>, <<>>, <<"b">>)
    /\ minfo["mod_b"].MODULES = EmptySpec

\* C1: when gather_modules completes, the module list holds exactly the modules
\* of the addresses in the closure of the two seed sets, and for the seed
\* [ByName a] with a declaring ByName b it is [a, b], in that order
C1_ClosureExact ==
    DiscoveryComplete =>
        /\ SetOf(modules) = ModulesOf(Closure(SeedAddrs))
        /\ ScenarioAB => modules = <<"mod_a", "mod_b">>

C1_Witness ==
    /\ DiscoveryComplete
    /\ ScenarioAB
    /\ modules = <<"mod_a", "mod_b">>
    /\ mi_processed = <<<<NAME, "a">>, <<NAME, "b">>>>

\* C2: the module list never holds a module twice, and no address is queued twice
C2_NoDuplicates == NoDup(modules) /\ NoDup(enqlog) /\ NoDup(mi_toprocess \o mi_processed)

\* b and b_alias were both resolved, and b was asked for more than once
C2_Witness ==
    /\ InSeq(<<NAME, "b">>, mi_processed)
    /\ InSeq(<<NAME, "b_alias">>, mi_processed)
    /\ Cardinality({i \in 1..Len(reqlog) : reqlog[i].addr = <<NAME, "b">>}) >= 2
    /\ Cardinality({i \in 1..Len(modules) : modules[i] = "mod_b"}) = 1

\* the position at which an address was queued, and at which it was resolved
EnqPos(a) == IndexOf(a, enqlog)

DonePos(a) == IndexOf(a, mi_processed)

\* C3: the address dispatched is the most recently queued of the pending ones;
\* what a step queues lies above everything that was pending before it; and of
\* two addresses queued by one requester the later one is resolved first
C3_LastInFirstOut ==
    /\ disp.addr # <<None, None>> =>
           \A q \in disp.pending : EnqPos(q) <= EnqPos(disp.addr)
    /\ \A i, j \in 1..Len(mi_toprocess) :
           (mi_toprocess[i] \in disp.pending /\ mi_toprocess[j] \notin disp.pending) => i < j
    /\ \A p, q \in SetOf(mi_processed) :
           (p # q /\ mi_processing_sources[p] = mi_processing_sources[q] /\ EnqPos(p) < EnqPos(q))
               => DonePos(q) < DonePos(p)

\* seeds [a, b] with b declaring c: b is resolved first, then c, then a
C3_Witness ==
    /\ enqlog = <<<<NAME, "a">>, <<NAME, "b">>, <<NAME, "c">>>>
    /\ mi_processed = <<<<NAME, "b">>, <<NAME, "c">>, <<NAME, "a">>>>
    /\ modules = <<"mod_b", "mod_c", "mod_a">>

\* a cascade step has ended in an exception: the address on top stays queued
IntakeFailed ==
    /\ pc = "raised"
    /\ nexec.mi_cascade_processing >= 1
    /\ mi_toprocess # <<>>
    /\ exc.type # "WasLocked"

\* who first asked for an address
FirstRequester(a) == reqlog[CHOOSE i \in 1..Len(reqlog) : reqlog[i].addr = a /\ \A j \in 1..(i - 1) : reqlog[j].addr # a].by

\* C4: an address whose resolution fails raises ModuleNotFound with the address
\* and the provenance of its first requester, which is never missing
C4_ModuleNotFoundWithProvenance ==
    IntakeFailed =>
        /\ exc.type = "ChassisModuleNotFoundError"
        /\ exc.a1 = disp.addr[2]
        /\ exc.a2 = FirstRequester(disp.addr)
        /\ exc.a2 # None

-----------------------------------------------------------------------------
(* Properties of the stage runner and the census. *)

StageOrder ==
    <<INIT, SETUP, LOAD, POSTLOAD, INTERLINK, RUNSTART, RUNSTOP, PRECLOSE, SAVE,
      POSTSAVE, TEARDOWN>>

IsPrefix(s, q) == Len(s) <= Len(q) /\ \A i \in 1..Len(s) : s[i] = q[i]

\* the stages recorded so far, in order
StagesSeen ==
    LET ev == SelectSeq(trace, LAMBDA e : e.ev = "stage") IN [i \in 1..Len(ev) |-> ev[i].stage]

\* the modules whose stage() was called while g[STAGE] was s, in call order
HookModsAt(s) ==
    LET ev == SelectSeq(trace, LAMBDA e : e.ev = "hook" /\ e.stage = s) IN
    [i \in 1..Len(ev) |-> ev[i].mod]

\* the stage recorded last before position i of the history
StageBefore(i) ==
    LET js == {j \in 1..(i - 1) : trace[j].ev = "stage"} IN
    IF js = {} THEN None ELSE trace[CHOOSE j \in js : \A k \in js : k <= j].stage

\* run() has returned to its caller
RunReturned == pc = "returned" /\ entry = "run" /\ ncalls = 0

\* C5: the eleven stages are performed in the fixed order; each stage is
\* recorded before its hooks run; the hooks of a stage are those of the modules
\* that define stage(), once each, in module-list order, and all of them run
\* before the next stage is recorded
C5_StageOrder ==
    /\ IsPrefix(StagesSeen, StageOrder)
    /\ RunReturned => StagesSeen = StageOrder
    /\ g_STAGE = (IF StagesSeen = <<>> THEN None ELSE StagesSeen[Len(StagesSeen)])
    /\ \A i \in 1..Len(trace) : trace[i].ev = "hook" => trace[i].stage = StageBefore(i)
    /\ \A s \in SetOf(StagesSeen) : HookModsAt(s) = SelectSeq(modules, HasStage)

\* a full run over three modules, two with a stage hook and one without
C5_Witness ==
    /\ RunReturned
    /\ Len(modules) = 3
    /\ Len(SelectSeq(modules, HasStage)) = 2
    /\ ~HasStage(modules[2])
    /\ Len(trace) = 11 + 22

DiagLogged == \E i \in 1..Len(logs) : logs[i].CODE \in {TOOMANYRUNMODULES, NORUNMODULE}

RunCalls == {i \in 1..Len(trace) : trace[i].ev = "run"}

\* C6: run() never returns early because of what the census logged: when it
\* returns, all eleven stages were performed; the run entry is called once,
\* after every RUNSTART hook and before RUNSTOP is recorded, and not at all when
\* none was designated
C6_NoPhaseSkipped ==
    /\ (pc = "returned" /\ entry = "run") => StagesSeen = StageOrder
    /\ DiagLogged => g_RUNMODULE = None
    /\ g_RUNMODULE = None => RunCalls = {}
    /\ Cardinality(RunCalls) <= 1
    /\ (g_RUNMODULE # None /\ InSeq(RUNSTOP, StagesSeen)) => Cardinality(RunCalls) = 1
    /\ \A i \in RunCalls :
          /\ trace[i].mod = g_RUNMODULE
          /\ StageBefore(i) = RUNSTART
          /\ \A j \in 1..Len(trace) :
                (trace[j].ev = "hook" /\ trace[j].stage = RUNSTART) => j < i
          /\ \A j \in 1..Len(trace) : trace[j].stage = RUNSTOP => i < j

\* a run that logged a census error and still went through every stage
C6_Witness ==
    /\ RunReturned
    /\ DiagLogged
    /\ StagesSeen = StageOrder
    /\ modules # <<>>

\* find_runmodule() has been called
CensusDone == FindRunmoduleKey \in locks

RunCapable == SelectSeq(modules, HasRun)

NeedRun == execution_types[disk_programdata.EXECUTIONTYPE].NRUNMODULES

\* C7: the census never raises; with n run-capable modules and r required it
\* designates the module and logs nothing when n = r = 1, logs one
\* TooManyRunModules error naming all n when n > r, logs one NoRunModule error
\* when n < r, and does nothing when n = r = 0
C7_Census ==
    CensusDone =>
        /\ ~(pc = "raised" /\ exc.type = "ValueError")
        /\ (Len(RunCapable) = 1 /\ NeedRun = 1) => (g_RUNMODULE = RunCapable[1] /\ logs = <<>>)
        /\ Len(RunCapable) > NeedRun =>
               /\ g_RUNMODULE = None
               /\ Len(logs) = 1
               /\ logs[1].TYPE = ERR /\ logs[1].CODE = TOOMANYRUNMODULES
               /\ logs[1].MSG = RunCapable
        /\ Len(RunCapable) < NeedRun =>
               /\ g_RUNMODULE = None
               /\ Len(logs) = 1
               /\ logs[1].TYPE = ERR /\ logs[1].CODE = NORUNMODULE
        /\ (Len(RunCapable) = 0 /\ NeedRun = 0) => (g_RUNMODULE = None /\ logs = <<>>)

\* two run-capable modules where one is required
C7_Witness ==
    /\ CensusDone
    /\ NeedRun = 1
    /\ Len(RunCapable) = 2
    /\ g_RUNMODULE = None
    /\ Len(logs) = 1 /\ logs[1].CODE = TOOMANYRUNMODULES /\ Len(logs[1].MSG) = 2

\* C8: each intake entry point runs its body at most once; once gather_modules
\* has been invoked, its key is held, a further invocation raises WasLocked and
\* leaves the module list, the queue and the processed list as they were, and
\* the module list never changes after discovery has completed
C8_CalledOnce ==
    /\ [](\A f \in DOMAIN nexec : nexec[f] <= 1)
    /\ [](nexec.gather_modules >= 1 => GatherKey \in locks)
    /\ [][(pc = "gather_modules" /\ nexec.gather_modules >= 1) =>
             /\ pc' = "raised"
             /\ exc' = WasLocked(GatherKey)
             /\ UNCHANGED <<modules, mi_toprocess, mi_processed, locks>>]_vars
    /\ [][DiscoveryComplete => modules' = modules]_vars

\* a second invocation after a completed discovery was refused
C8_Witness ==
    /\ ncalls >= 1
    /\ pc = "raised"
    /\ exc = WasLocked(GatherKey)
    /\ DiscoveryComplete
    /\ Len(modules) >= 2

-----------------------------------------------------------------------------
(* C9 *)

\* the calls of the history that are lock(k) or unlock(k)
IsCall(i, op, k) == calls[i].op = op /\ calls[i].key = k

Succeeded(i) == calls[i].exc = NoExc

\* C9: over any sequence of lock and unlock calls on any keys, lock(k)
\* succeeds exactly when k is not held and then k is held; unlock(k) succeeds
\* exactly when k is held and then k is absent; lock(k) on a held key raises
\* WasLocked(k) and unlock(k) on an absent key raises WasNotLocked(k), and a
\* call that raises leaves the lock set as it found it.  Hence a lock(k)
\* right after a lock(k) fails, an unlock(k) with no lock(k) before it fails,
\* and lock(k), unlock(k), lock(k) from the start all succeed.
C9_LockUnlock ==
    /\ \A i \in 1..Len(calls) :
         LET c == calls[i] IN
         /\ c.before = (IF i = 1 THEN {} ELSE calls[i - 1].after)
         /\ c.op = "lock" =>
              /\ Succeeded(i) <=> c.key \notin c.before
              /\ Succeeded(i) => c.after = c.before \cup {c.key} /\ c.key \in c.after
              /\ ~Succeeded(i) => c.exc = WasLocked(c.key) /\ c.after = c.before
         /\ c.op = "unlock" =>
              /\ Succeeded(i) <=> c.key \in c.before
              /\ Succeeded(i) => c.after = c.before \ {c.key} /\ c.key \notin c.after
              /\ ~Succeeded(i) => c.exc = WasNotLocked(c.key) /\ c.after = c.before
    /\ locks = (IF calls = <<>> THEN {} ELSE Last(calls).after)
    /\ \A k \in LockKeys :
         /\ \A i \in 2..Len(calls) :
              IsCall(i - 1, "lock", k) /\ IsCall(i, "lock", k) => calls[i].exc = WasLocked(k)
         /\ \A i \in 1..Len(calls) :
              (IsCall(i, "unlock", k) /\ \A j \in 1..(i - 1) : ~IsCall(j, "lock", k))
                 => calls[i].exc = WasNotLocked(k)
         /\ (Len(calls) >= 3 /\ IsCall(1, "lock", k) /\ IsCall(2, "unlock", k) /\ IsCall(3, "lock", k))
                 => Succeeded(1) /\ Succeeded(2) /\ Succeeded(3)

\* lock(k1), unlock(k1) and lock(k1) succeeded, and a second lock(k1) has been
\* refused with the key still held
C9_Witness ==
    /\ Len(calls) = 4
    /\ IsCall(1, "lock", "k1") /\ Succeeded(1)
    /\ IsCall(2, "unlock", "k1") /\ Succeeded(2)
    /\ IsCall(3, "lock", "k1") /\ Succeeded(3)
    /\ IsCall(4, "lock", "k1") /\ calls[4].exc = WasLocked("k1")
    /\ locks = {"k1"}

-----------------------------------------------------------------------------
(* C10 *)

\* C10: while a name's series of next() calls since its define is not broken
\* by a reset or an import, the i-th call returned DEFAULT + i - 1, no value
\* was returned twice and the pointer stands one past the last value; every
\* next(name) of such a series returns the pointer, advances it by exactly 1
\* and leaves every other sequence as it was.
C10_NextCountsUp ==
    /\ [](\A n \in SnowNames :
            (streak[n].live /\ byname[n] # 0) =>
               LET D == db[byname[n]]
                   v == streak[n].vals
               IN /\ \A i \in 1..Len(v) : v[i] = D.DEFAULT + i - 1
                  /\ NoDup(v)
                  /\ Pointer(D) = D.DEFAULT + Len(v))
    /\ [][\A n \in SnowNames :
             Len(streak'[n].vals) = Len(streak[n].vals) + 1 =>
                LET i == byname[n] IN
                /\ byname' = byname
                /\ Len(db') = Len(db)
                /\ Last(streak'[n].vals) = Pointer(db[i])
                /\ Pointer(db'[i]) = Pointer(db[i]) + 1
                /\ \A j \in 1..Len(db) : j # i => db'[j] = db[j]]_vars

\* s1 (default 0) has returned 0, 1, 2 and s2 (default 1) has returned 1, 2,
\* the calls interleaved or not
C10_Witness ==
    /\ streak["s1"].live /\ streak["s1"].vals = <<0, 1, 2>>
    /\ streak["s2"].live /\ streak["s2"].vals = <<1, 2>>
    /\ Pointer(db[byname["s1"]]) = 3
    /\ Pointer(db[byname["s2"]]) = 3

-----------------------------------------------------------------------------
(* C11 *)

\* the last step was import_from_jsondict(M), M being the mapping the last
\* export_to_jsondict() returned, with no define since that export
ImportedOwnExport ==
    /\ lastimport.done
    /\ lastimport.json_D = exported
    /\ Len(db) = exported_defs

\* C11: when M = export() is imported back after any next/reset calls, every
\* EXPORTED sequence's pointer is its value in M, a following export() equals
\* M, the following next(name) returns M[name] for every name of M, M holds no
\* name of a SESSION sequence, and every SESSION sequence is as it was
\* immediately before the import.
C11_ExportImportRoundTrip ==
    ImportedOwnExport =>
        /\ \A i \in 1..Len(db) :
              db[i].POLICY = EXPORTED =>
                 /\ exported[db[i].NAME].present
                 /\ Pointer(db[i]) = exported[db[i].NAME].val
        /\ export_to_jsondict(db) = exported
        /\ \A n \in SnowNames :
              exported[n].present =>
                 /\ next(Snow(db, byname), n).exc = NoExc
                 /\ next(Snow(db, byname), n).ret = exported[n].val
        /\ \A i \in 1..Len(db) :
              db[i].POLICY = SESSION =>
                 /\ ~exported[db[i].NAME].present
                 /\ db[i] = lastimport.before[i]

-----------------------------------------------------------------------------
(* C12 *)

\* the entry is the same sequence definition: name, default and policy
SameDefinition(D, E) == D.NAME = E.NAME /\ D.DEFAULT = E.DEFAULT /\ D.POLICY = E.POLICY

\* C12: import(mapping) raises nothing and creates no definition; it sets
\* the pointer of each EXPORTED sequence named in the mapping to the mapped
\* value and leaves every other sequence (SESSION policy, or name absent
\* from the mapping) exactly as it was; a mapped name that is not defined
\* stays undefined and is in no export taken afterwards.
C12_ImportFrame ==
    lastimport.done =>
        LET before == lastimport.before
            json_D == lastimport.json_D
        IN /\ pc # "raised" /\ exc = NoExc
           /\ Len(db) = Len(before)
           /\ \A i \in 1..Len(db) :
                 /\ SameDefinition(db[i], before[i])
                 /\ IF before[i].POLICY = EXPORTED /\ json_D[before[i].NAME].present
                    THEN Pointer(db[i]) = json_D[before[i].NAME].val
                    ELSE db[i] = before[i]
           /\ \A n \in SnowNames : byname[n] # 0 <=> defined(before, n)
           /\ \A n \in JsonNames :
                 (json_D[n].present /\ ~defined(before, n)) =>
                    /\ ~defined(db, n)
                    /\ ~export_to_jsondict(db)[n].present

\* a mapping naming s1 and the undefined s3 was imported: the EXPORTED s1 went
\* from pointer 2 to the mapped 1, the EXPORTED s2, absent from the mapping,
\* kept its pointer 2
C12_Witness ==
    /\ lastimport.done
    /\ lastimport.json_D = ForeignJson
    /\ Len(db) = 2
    /\ db[1].NAME = "s1" /\ db[1].POLICY = EXPORTED
    /\ Pointer(lastimport.before[1]) = 2 /\ Pointer(db[1]) = 1
    /\ db[2].NAME = "s2" /\ db[2].POLICY = EXPORTED
    /\ Pointer(lastimport.before[2]) = 2 /\ Pointer(db[2]) = 2

-----------------------------------------------------------------------------
(* C13 *)

\* C13: the registered sequence definitions have pairwise distinct names: a
\* define whose name is already registered adds no second definition
C13_DistinctNames ==
    \A i, j \in 1..Len(db) : db[i].NAME = db[j].NAME => i = j

-----------------------------------------------------------------------------
(* C14 *)

\* the ringlog calls that returned, oldest first
Returned(op) == SelectSeq(logcalls, LAMBDA c : c.op = op /\ c.exc = NoExc)

\* the entries the returned ringlog calls asked for, in call order
RingAsked == [i \in 1..Len(Returned("ringlog")) |-> Returned("ringlog")[i].entry]

\* the program data is loaded with a LOGRINGLEN, and was when every ringlog call was made
Configured ==
    /\ ~g_PROGRAMDATA.none
    /\ g_PROGRAMDATA.hasLOGRINGLEN
    /\ \A i \in 1..Len(logcalls) : logcalls[i].op = "ringlog" => ~logcalls[i].P.none

Min(a, b) == IF a <= b THEN a ELSE b

\* C14: with a configured capacity c, after n ringlog calls from an empty
\* ring buffer (and any log calls in between) the ring buffer holds exactly
\* the entries of the last min(n, c) of them, in call order, so its length is
\* at most c whenever a call has completed
C14_RingKeepsLast ==
    Configured =>
        LET c == g_PROGRAMDATA.LOGRINGLEN
            n == Len(RingAsked)
        IN /\ ringlogs = SubSeq(RingAsked, n - Min(n, c) + 1, n)
           /\ Len(ringlogs) <= c

\* capacity 3 and five ringlog calls: the ring holds the 3rd, 4th and 5th entry
C14_Witness ==
    /\ Configured
    /\ g_PROGRAMDATA.LOGRINGLEN = 3
    /\ Len(RingAsked) = 5
    /\ ringlogs = <<RingAsked[3], RingAsked[4], RingAsked[5]>>
    /\ ringlogs[1].MSG = "3" /\ ringlogs[3].MSG = "5"

-----------------------------------------------------------------------------
(* C15 *)

\* the ringlog call returned with the capacity missing or at least 1
KeepsNewest(c) == c.op = "ringlog" /\ c.exc = NoExc /\ (c.P.hasLOGRINGLEN => c.P.LOGRINGLEN >= 1)

\* C15 as claimed: no call removes or reorders an entry of the unbounded
\* log; after every ringlog call that returned, the new entry is the last
\* entry of the unbounded log (or the last but one, when the capacity is
\* missing and a diagnostic follows it) and the newest entry of the ring
\* buffer, and every entry of the ring buffer is in the unbounded log
C15_RingMirrorsLog ==
    /\ \A i \in 1..Len(logcalls) : IsPrefix(logcalls[i].logs, logcalls[i].logs_after)
    /\ \A i \in 1..Len(logcalls) :
          KeepsNewest(logcalls[i]) =>
             /\ logcalls[i].logs_after # <<>>
             /\ logcalls[i].ringlogs_after # <<>>
             /\ \/ Last(logcalls[i].logs_after) = logcalls[i].entry
                \/ /\ ~logcalls[i].P.hasLOGRINGLEN
                   /\ Len(logcalls[i].logs_after) >= 2
                   /\ logcalls[i].logs_after[Len(logcalls[i].logs_after) - 1] = logcalls[i].entry
             /\ Last(logcalls[i].ringlogs_after) = logcalls[i].entry
             /\ SetOf(logcalls[i].ringlogs_after) \subseteq SetOf(logcalls[i].logs_after)

\* C15, amended: no call removes or reorders an entry of the unbounded log;
\* a ringlog call that returns moves its new entry out of the unbounded log
\* into the ring buffer: the entry is not in the unbounded log, which is as
\* the call found it when a capacity is configured, and the entry is the
\* newest of the ring buffer unless the configured capacity is below 1; no
\* entry of the ring buffer is in the unbounded log
C15_RingApartFromLog ==
    /\ \A i \in 1..Len(logcalls) : IsPrefix(logcalls[i].logs, logcalls[i].logs_after)
    /\ \A i \in 1..Len(logcalls) :
          LET c == logcalls[i] IN
          (c.op = "ringlog" /\ c.exc = NoExc) =>
             /\ c.entry \notin SetOf(c.logs_after)
             /\ c.P.hasLOGRINGLEN => c.logs_after = c.logs
             /\ KeepsNewest(c) =>
                   c.ringlogs_after # <<>> /\ Last(c.ringlogs_after) = c.entry
    /\ SetOf(ringlogs) \cap SetOf(logs) = {}

\* after a log call, a ringlog call with capacity 3 returned: its entry is the
\* newest of the ring buffer and the unbounded log holds the first call's only
C15_Witness ==
    /\ Len(logcalls) = 2
    /\ logcalls[1].op = "log" /\ logcalls[1].exc = NoExc
    /\ logcalls[2].op = "ringlog" /\ logcalls[2].exc = NoExc
    /\ logcalls[2].P.hasLOGRINGLEN /\ logcalls[2].P.LOGRINGLEN = 3
    /\ logs = <<logcalls[1].entry>>
    /\ ringlogs = <<logcalls[2].entry>>

-----------------------------------------------------------------------------
(* C16 *)

\* the program data was loaded, without LOGRINGLEN, when the call was made
NoCapacity(c) == ~c.P.none /\ ~c.P.hasLOGRINGLEN

ValidSeverity(c) == c.type_ \in {NOTE, DBG, WARN, ERR}

\* the secondary diagnostic of ringlog
IsCapacityDiagnostic(e) == e.TYPE = ERR /\ e.CODE = BADPROGRAMDATA

\* C16: with the program data loaded but no capacity in it, a ringlog call
\* with a valid severity returns, its entry is recorded (appended to the ring
\* buffer, nothing evicted) and exactly one ERR BADPROGRAMDATA entry is
\* appended to the unbounded log; a log or ringlog call with a severity other
\* than NOTE, DBG, WARN, ERR raises ValueError and leaves the log and the ring
\* buffer as they were
C16_MissingCapacityDegrades ==
    \A i \in 1..Len(logcalls) :
       LET c == logcalls[i] IN
       /\ (c.op = "ringlog" /\ NoCapacity(c) /\ ValidSeverity(c)) =>
             /\ c.exc = NoExc
             /\ c.ringlogs_after = Append(c.ringlogs, c.entry)
             /\ Len(c.logs_after) = Len(c.logs) + 1
             /\ Front(c.logs_after) = c.logs
             /\ IsCapacityDiagnostic(Last(c.logs_after))
       /\ ~ValidSeverity(c) =>
             /\ c.exc = ValueError(c.type_)
             /\ c.logs_after = c.logs
             /\ c.ringlogs_after = c.ringlogs

\* without a capacity, a ringlog call with an invalid severity was refused
\* and two with a valid one returned, each leaving its diagnostic in the log
C16_Witness ==
    /\ Len(logcalls) = 3
    /\ \A i \in 1..3 : logcalls[i].op = "ringlog" /\ NoCapacity(logcalls[i])
    /\ ~ValidSeverity(logcalls[1]) /\ logcalls[1].exc = ValueError("FATAL")
    /\ ValidSeverity(logcalls[2]) /\ ValidSeverity(logcalls[3])
    /\ ringlogs = <<logcalls[2].entry, logcalls[3].entry>>
    /\ Len(logs) = 2 /\ IsCapacityDiagnostic(logs[1]) /\ IsCapacityDiagnostic(logs[2])

-----------------------------------------------------------------------------
(* C17 *)

\* the address names something that loads: an importable module, a file that
\* executes, a directory all of whose eligible files execute
Loads(a) ==
    IF a[1] = NAME THEN ImportModule(a[2]) \in Mods
    ELSE IF a[1] = FILE THEN ExecFile(a[2]) \in Mods
    ELSE \A f \in {x \in SetOf(ListDir(a[2])) : IsPyFile(x)} : ExecFile(PathJoin(a[2], f)) \in Mods

\* the declared graph: every address reachable from the seeds loads
GraphLoads == \A a \in Closure(SeedAddrs) : Loads(a)

\* C17: for every declared module graph whose addresses all load, cyclic or
\* not, the cascade loop ends with an empty worklist: every turn of the loop
\* resolves one more address, all of them reachable from the seeds and none
\* twice, and the loop is never left by an exception; the worklist and the
\* processed list share no address, and when the loop has ended normally the
\* processed addresses are exactly those reachable from the seeds
C17_DiscoveryTerminates ==
    /\ [](NoDup(mi_toprocess \o mi_processed))
    /\ [](SetOf(mi_toprocess \o mi_processed) \subseteq Closure(SeedAddrs))
    /\ [](DiscoveryComplete => SetOf(mi_processed) = Closure(SeedAddrs))
    /\ [][(pc = "cascade_loop" /\ mi_toprocess # <<>>) =>
             \/ Len(mi_processed') = Len(mi_processed) + 1
             \/ pc' = "raised" /\ ~GraphLoads]_vars
    /\ []((GraphLoads /\ pc = "raised") => DiscoveryComplete)

-----------------------------------------------------------------------------
(* C18 *)

\* the modules of the list that go by the requested name
Named(rq) == {x \in SetOf(modules) : ModuleName(x) = rq}

\* the request names a module of the list, or chassis2023 itself
Known(rq) == rq = "chassis2023" \/ Named(rq) # {}

Requests(m) == SetOf(minfo[m].IMPORTSYMBOLS)

\* every module of the list declares a vocabulary
AllDeclare == \A m \in SetOf(modules) : minfo[m].hasSYMBOLS

\* C18: interlink records every module's vocabulary before it resolves any
\* request: when every module declares a vocabulary, a request fails only if
\* it names no module of the list, wherever the requested module stands in
\* the list; and when interlink returns, every module's vocabulary is in the
\* registry and every module exposes its own names and all names of every
\* module it requests, and no others
C18_TwoPasses ==
    [][pc = "inject_module_symbols" =>
         /\ (pc' = "raised" /\ AllDeclare) =>
               /\ exc'.type = "KeyError"
               /\ \E m \in SetOf(modules) : \E rq \in Requests(m) : ~Known(rq) /\ exc' = KeyError(rq)
         /\ pc' # "raised" =>
               /\ \A m \in SetOf(modules) :
                     symbols_from_module'[ModuleName(m)] = RegEntry(TRUE, minfo[m].SYMBOLS)
               /\ \A m \in SetOf(modules) :
                     attrs'[m] = SetOf(minfo[m].SYMBOLS)
                                   \cup UNION {SetOf(minfo[x].SYMBOLS) : x \in UNION {Named(rq) : rq \in Requests(m)}}
                                   \cup (IF "chassis2023" \in Requests(m) THEN SetOf(kSYMBOLS) ELSE {})
    ]_vars

\* interlink has returned: mod_a, first in the list, requested b, which comes
\* after it, and mod_b requested a: each exposes the other's names
C18_Witness ==
    /\ pc = "define_snowflakes"
    /\ modules = <<"mod_a", "mod_b">>
    /\ minfo["mod_a"].IMPORTSYMBOLS = <<"b">>
    /\ minfo["mod_b"].IMPORTSYMBOLS = <<"b", "a">>
    /\ attrs["mod_a"] = {"A1", "A2", "B1"}
    /\ attrs["mod_b"] = {"A1", "A2", "B1"}

-----------------------------------------------------------------------------
(* C19 *)

\* the ByFile addresses of the eligible files of a directory
FilesOf(dir_path) ==
    {<<FILE, PathJoin(dir_path, f)>> : f \in {x \in SetOf(ListDir(dir_path)) : IsPyFile(x)}}

\* C19: the loop turn that resolves a ByDirectory address registers no
\* module and raises nothing: it moves the address to the processed list and
\* leaves every eligible file of the directory as a ByFile address on the
\* worklist or the processed list, with its provenance recorded; no address,
\* so no such file, is ever resolved twice
C19_DirectoryRequeuesFiles ==
    /\ [][(pc = "cascade_loop" /\ mi_toprocess # <<>> /\ Last(mi_toprocess)[1] = DIR) =>
             /\ pc' # "raised"
             /\ modules' = modules
             /\ InSeq(Last(mi_toprocess), mi_processed')
             /\ \A a \in FilesOf(Last(mi_toprocess)[2]) :
                   /\ InSeq(a, mi_toprocess' \o mi_processed')
                   /\ mi_processing_sources'[a] # Absent]_vars
    /\ [](NoDup(mi_processed))

-----------------------------------------------------------------------------
(* C20 *)

\* C20: pass 1 of interlink succeeds whatever metadata the modules have: the
\* interlink step raises nothing but the KeyError of an unknown request in
\* pass 2, and it leaves an empty vocabulary in the registry for every module
\* that declares none, so that perform_prep goes on to define_snowflakes
C20_Pass1AlwaysSucceeds ==
    [][pc = "inject_module_symbols" =>
         /\ pc' = "raised" => exc'.type = "KeyError"
         /\ pc' # "raised" => pc' = "define_snowflakes"
         /\ \A m \in SetOf(modules) :
               ~minfo[m].hasSYMBOLS =>
                  symbols_from_module'[ModuleName(m)] = RegEntry(TRUE, <<>>)
    ]_vars

====
